---- MODULE Spec2Model ----
(***************************************************************************)
(* State-machine model of indi_allsky/starTrails.py, class                 *)
(* StarTrailGenerator: the per-frame gates and max-accumulator             *)
(* (processImage), the batch driver (generate), the finalizer (finalize)   *)
(* with its GPS block (decdeg2dms), the mask preprocessing of __init__     *)
(* (_preprocess_mask, crop_mask, scale_mask) and the temporary timelapse   *)
(* workspace life cycle (cleanup, __del__).                                *)
(*                                                                         *)
(* A frame is one row of two pixels, each given by one brightness value    *)
(* (a grayscale frame, or a colour frame whose channels are equal, for     *)
(* which BGR2GRAY returns that value).  Real-valued quantities (masked     *)
(* mean, pixel cutoff) are exact rationals <<n, d>> with d > 0, so every   *)
(* comparison of the code is decided exactly.                              *)
(***************************************************************************)
EXTENDS Integers, Sequences, FiniteSets, TLC

VARIABLES
    config,                 \* self.config: STARTRAILS_TIMELAPSE, IMAGE_FILE_TYPE
    pixel_cutoff_threshold, \* self._pixel_cutoff_threshold (percent)
    moonmode_alt,           \* self._moonmode_alt
    moonmode_phase,         \* self._moonmode_phase
    moon_alt_threshold,     \* self._moon_alt_threshold
    moon_phase_threshold,   \* self._moon_phase_threshold
    trail_image,            \* self.trail_image (None or an image)
    trail_count,            \* self.trail_count
    pixels_cutoff,          \* self.pixels_cutoff (None or a rational)
    excluded_images,        \* self.excluded_images
    sqm_mask,               \* self._sqm_mask (NoMask or the set of nonzero pixels)
    placeholder_image,      \* self.placeholder_image
    placeholder_adu,        \* self.placeholder_adu (rational)
    timelapse_frame_count,  \* self._timelapse_frame_count
    timelapse_frame_list,   \* self._timelapse_frame_list (records image, mtime)
    timelapse_tmpdir,       \* self.timelapse_tmpdir: "unset", "live", "cleaned"
    alive,                  \* the instance has not been discarded yet
    outfile,                \* content of the output file (None: not written)
    outfile_gps,            \* GPS block of the output file's EXIF (None: no EXIF)
    camera,                 \* the camera row handed to finalize
    mask_request,           \* __init__'s mask argument and mask configuration
    preprocessed,           \* what _preprocess_mask returned in __init__
    deletions,              \* how often the workspace directory was removed
    raised,                 \* exception that ended the most recent call
    gen,                    \* position of a running generate() call
    frames_passed,          \* history: number of processImage calls
    processed_frames,       \* history: images handed to processImage
    accepted_frames,        \* history: images that passed every gate
    rules_evaluated         \* history: exclusion rules tried on the last frame

vars == <<config, pixel_cutoff_threshold, moonmode_alt, moonmode_phase,
          moon_alt_threshold, moon_phase_threshold, trail_image, trail_count,
          pixels_cutoff, excluded_images, sqm_mask, placeholder_image,
          placeholder_adu, timelapse_frame_count, timelapse_frame_list,
          timelapse_tmpdir, alive, outfile, outfile_gps, camera,
          mask_request, preprocessed, deletions, raised, gen, frames_passed,
          processed_frames, accepted_frames, rules_evaluated>>

\* Python's None: the empty tuple where an image or a rational is expected,
\* and a set holding no pixel index where a mask is expected
None == <<>>
NoMask == {0}

(***************************************************************************)
(* Bounds of the model.                                                    *)
(***************************************************************************)
\* processImage calls per run
MaxFrames == 2
\* distinct file modification times
MaxMtime == 2

(***************************************************************************)
(* Program constants: the defaults set by __init__.                        *)
(***************************************************************************)
max_brightness == 50
mask_threshold == 190
sun_alt_threshold == -15
DefaultPixelCutoffThreshold == 1
DefaultMoonAlt == 91
DefaultMoonPhase == 101
InitialPlaceholderAdu == 255

(***************************************************************************)
(* Input domains.                                                          *)
(***************************************************************************)
\* frames are one row of two pixels
Pixels == {1, 2}
image_width == Cardinality(Pixels)
\* dark, one faint star (left or right), a saturated artifact outside the
\* supplied mask, a fully saturated frame
Images == {<<0, 0>>, <<50, 0>>, <<0, 50>>, <<0, 255>>, <<255, 255>>}
Mtimes == 1..MaxMtime
\* ephemeris results for a frame's timestamp (degrees, degrees, percent)
\* sun: at the threshold or above it; moon: around both pairs of thresholds
Ephemeris ==
    [sun_alt : {-15}, moon_alt : {20, 30, 40}, moon_phase : {50, 60}]
    \cup [sun_alt : {-10}, moon_alt : {20, 40}, moon_phase : {60}]
FileTypes == {"png", "bmp"}
SupportedTypes == {"jpg", "jpeg", "png", "webp", "tif", "tiff"}
\* values the pixel_cutoff_threshold setter is called with (percent)
CutoffPercents == {1, 50}
\* externally supplied masks (sets of nonzero pixels)
SuppliedMasks == {{1}}
\* camera positions in decimal degrees (longitude, latitude), exact rationals
\* <<n, d>>: the site of the specification's example, positions less than one
\* degree west or south of the origin, positions with odd seconds
Longitudes == {<<-151, 2>>, <<-1, 2>>, <<0, 1>>, <<4321, 3600>>, <<180, 1>>}
Latitudes == {<<163, 4>>, <<-1, 3600>>, <<-4321, 3600>>, <<-90, 1>>}
Cameras == [longitude : Longitudes, latitude : Latitudes]
SiteCamera == [longitude |-> <<-151, 2>>, latitude |-> <<163, 4>>]
\* file types of the runs that write EXIF
ExifFileTypes == {"jpg", "png"}
\* __init__'s mask argument with the configuration _preprocess_mask reads:
\* mask is the shape <<height, width>> of an all-white mask image (None: no
\* mask given), crop is IMAGE_CROP_ROI <<x1, y1, x2, y2>> (None: not set),
\* scale is IMAGE_SCALE in percent, bin is bin_v.value.  The rectangles lie
\* inside the mask or reach beyond it, and some are one pixel wide.
MaskShapes == {<<4, 6>>}
CropRois == {<<x1, y1, x2, y2>> : x1 \in {0, 2}, y1 \in {0, 1},
                                  x2 \in {3, 5, 8}, y2 \in {2, 4}}
MaskRequests ==
    [mask : {None} \cup MaskShapes, crop : {None} \cup CropRois,
     scale : {50, 100}, bin : {1, 2}]
\* a mask of the frames' own shape (one row of two pixels), used as it is
FrameMaskRequest(given) ==
    [mask |-> IF given THEN <<1, Cardinality(Pixels)>> ELSE None,
     crop |-> None, scale |-> 100, bin |-> 1]
\* moon thresholds configured before the run: defaults, or both rules active
MoonSetups == {
    [mm_alt |-> DefaultMoonAlt, mm_phase |-> DefaultMoonPhase,
     m_alt |-> DefaultMoonAlt, m_phase |-> DefaultMoonPhase],
    [mm_alt |-> 30, mm_phase |-> 50, m_alt |-> 20, m_phase |-> 50]}

(***************************************************************************)
(* Exact rationals.                                                        *)
(***************************************************************************)
Q(n, d) == <<n, d>>
QLt(a, b) == a[1] * b[2] < b[1] * a[2]
QLe(a, b) == a[1] * b[2] <= b[1] * a[2]

RECURSIVE SumOver(_, _)
SumOver(image, S) ==
    IF S = {} THEN 0
    ELSE LET p == CHOOSE q \in S : TRUE
         IN image[p] + SumOver(image, S \ {p})

(***************************************************************************)
(* numpy / cv2 primitives used by processImage.                            *)
(***************************************************************************)
\* numpy.zeros((h, w), uint8)
ZeroImage == [p \in Pixels |-> 0]

\* cv2.max(a, b): pixel-wise maximum
\* (faulty variants: the new frame replaces the composite; the frame is
\* folded only when a timelapse frame is emitted)
ImageOverwrite(a, b) == b
ImageMaxWhenEmitting(a, b) ==
    IF config.STARTRAILS_TIMELAPSE
    THEN [p \in Pixels |-> IF a[p] >= b[p] THEN a[p] ELSE b[p]]
    ELSE a
ImageMax(a, b) == [p \in Pixels |-> IF a[p] >= b[p] THEN a[p] ELSE b[p]]

\* cv2.mean(image, mask)[0]: mean over the nonzero mask pixels, 0 for an empty mask
MaskedMean(image, mask) ==
    IF mask = {} THEN Q(0, 1) ELSE Q(SumOver(image, mask), Cardinality(mask))

\* (image_gray > mask_threshold).sum()
PixelsAbove(image) == Cardinality({p \in Pixels : image[p] > mask_threshold})

\* _generateSqmMask without SQM_ROI: the central rectangle
\* x in int(w/2 - w/3) .. int(w/2 + w/3), filled inclusively and clipped
GenerateSqmMask ==
    {p \in Pixels : (image_width \div 6) + 1 <= p
                     /\ p <= ((5 * image_width) \div 6) + 1}

(***************************************************************************)
(* The exclusion rules of processImage, in source order.                   *)
(***************************************************************************)
\* if sun_alt > self.sun_alt_threshold (faulty variant: >=)
SunExcludesNonStrict(ctx) == ctx.sun_alt >= sun_alt_threshold
SunExcludes(ctx) == ctx.sun_alt > sun_alt_threshold

\* if moon_alt > self.moonmode_alt and moon_phase > self.moonmode_phase
MoonModeExcludes(ctx) ==
    ctx.moon_alt > moonmode_alt /\ ctx.moon_phase > moonmode_phase

\* if moon_alt > self.moon_alt_threshold and moon_phase > self.moon_phase_threshold
\* (faulty variant: the thresholds are ignored, any lit moon above the
\* horizon excludes)
MoonExcludesAlwaysActive(ctx) == ctx.moon_alt > 0 /\ ctx.moon_phase > 0
MoonExcludes(ctx) ==
    ctx.moon_alt > moon_alt_threshold /\ ctx.moon_phase > moon_phase_threshold

\* if m_avg > self._max_brightness
BrightnessExcludes(ctx) == QLt(Q(max_brightness, 1), ctx.m_avg)

\* if pixels_above_cutoff > self.pixels_cutoff
PixelCutoffExcludes(ctx) == QLt(ctx.cutoff, Q(ctx.pixels_above, 1))

Matches(rule, ctx) ==
    CASE rule = "sun" -> SunExcludes(ctx)
      [] rule = "moonmode" -> MoonModeExcludes(ctx)
      [] rule = "moon" -> MoonExcludes(ctx)
      [] rule = "brightness" -> BrightnessExcludes(ctx)
      [] rule = "pixels" -> PixelCutoffExcludes(ctx)

\* the order of the if-statements (faulty variant: brightness is tested first)
RuleOrderBrightnessFirst == <<"brightness", "sun", "moonmode", "moon", "pixels">>
RuleOrder == <<"sun", "moonmode", "moon", "brightness", "pixels">>

\* the rules tried on one frame: each matching rule returns, so the walk
\* stops at the first match (faulty variant: a matching rule falls through)
RECURSIVE EvaluatedNoReturn(_, _)
EvaluatedNoReturn(rules, ctx) ==
    IF rules = <<>> THEN <<>>
    ELSE <<Head(rules)>> \o EvaluatedNoReturn(Tail(rules), ctx)
RECURSIVE Evaluated(_, _)
Evaluated(rules, ctx) ==
    IF rules = <<>> THEN <<>>
    ELSE IF Matches(Head(rules), ctx) THEN <<Head(rules)>>
    ELSE <<Head(rules)>> \o Evaluated(Tail(rules), ctx)

\* number of "self.excluded_images += 1" statements executed for the rules tried
ExclusionsCounted(tried, ctx) ==
    Cardinality({i \in 1..Len(tried) : Matches(tried[i], ctx)})

(***************************************************************************)
(* processImage(file_p, image): mtime is file_p.stat().st_mtime, eph the   *)
(* sun and moon positions ephem computes for that time.                    *)
(***************************************************************************)
\* lines 215-218: the cutoff is computed when the composite is created
CutoffFor(area, percent) == Q(area * percent, 100)

\* lines 242-245: the darkest frame seen is kept as the placeholder
DarkerThanPlaceholder(m_avg) == QLt(m_avg, placeholder_adu)

\* lines 305-321 and 412-428: the formats a frame or the result can be
\* written in (faulty variant: any other type is written in some format)
TypeSupportedAny == TRUE
TypeSupported == config.IMAGE_FILE_TYPE \in SupportedTypes

\* lines 326-327 (faulty variant: the counter is raised, no record is appended)
AppendFrameDropped(list, rec) == list
AppendFrame(list, rec) == Append(list, rec)

processImage(mtime, image, eph) ==
    LET first == trail_image = None
        cutoff == IF first THEN CutoffFor(image_width, pixel_cutoff_threshold)
                  ELSE pixels_cutoff
        base == IF first THEN ZeroImage ELSE trail_image
        mask == IF sqm_mask = NoMask THEN GenerateSqmMask ELSE sqm_mask
        m_avg == MaskedMean(image, mask)
        ctx == [sun_alt |-> eph.sun_alt, moon_alt |-> eph.moon_alt,
                moon_phase |-> eph.moon_phase, m_avg |-> m_avg,
                pixels_above |-> PixelsAbove(image), cutoff |-> cutoff]
        tried == Evaluated(RuleOrder, ctx)
        counted == ExclusionsCounted(tried, ctx)
        accepted == counted = 0
        composite == ImageMax(base, image)
        emit == accepted /\ config.STARTRAILS_TIMELAPSE
        written == emit /\ timelapse_tmpdir = "live" /\ TypeSupported
    IN  /\ frames_passed' = frames_passed + 1
        /\ processed_frames' = processed_frames \cup {image}
        /\ pixels_cutoff' = cutoff
        /\ sqm_mask' = mask
        /\ IF DarkerThanPlaceholder(m_avg)
           THEN placeholder_image' = image /\ placeholder_adu' = m_avg
           ELSE UNCHANGED <<placeholder_image, placeholder_adu>>
        /\ rules_evaluated' = tried
        /\ excluded_images' = excluded_images + counted
        /\ trail_count' = IF accepted THEN trail_count + 1 ELSE trail_count
        /\ trail_image' = IF accepted THEN composite ELSE base
        /\ timelapse_frame_list' =
              IF written
              THEN AppendFrame(timelapse_frame_list,
                               [image |-> composite, mtime |-> mtime])
              ELSE timelapse_frame_list
        /\ timelapse_frame_count' =
              IF written THEN timelapse_frame_count + 1 ELSE timelapse_frame_count
        /\ raised' = IF ~emit THEN "none"
                     ELSE IF timelapse_tmpdir # "live" THEN "FileNotFoundError"
                     ELSE IF ~TypeSupported THEN "Exception"
                     ELSE "none"
        /\ accepted_frames' = IF accepted THEN accepted_frames \cup {image}
                              ELSE accepted_frames
        /\ UNCHANGED <<camera, mask_request, preprocessed, config,
                       pixel_cutoff_threshold, moonmode_alt, moonmode_phase,
                       moon_alt_threshold, moon_phase_threshold,
                       timelapse_tmpdir, alive, outfile, outfile_gps,
                       deletions>>

\* a caller may use the instance while it exists and no call is running
Callable == alive /\ timelapse_tmpdir # "unset" /\ gen.pc # "loop"

CallProcessImage ==
    /\ Callable
    /\ frames_passed < MaxFrames
    /\ \E mtime \in Mtimes, image \in Images, eph \in Ephemeris :
          processImage(mtime, image, eph)
    /\ UNCHANGED gen

(***************************************************************************)
(* Property setter used while a run is in progress.                        *)
(***************************************************************************)
SetPixelCutoffThreshold ==
    /\ Callable
    /\ \E new_thold \in CutoffPercents :
          /\ new_thold # pixel_cutoff_threshold
          /\ pixel_cutoff_threshold' = new_thold
    /\ raised' = "none"
    /\ UNCHANGED <<camera, mask_request, preprocessed, config, moonmode_alt,
                   moonmode_phase, moon_alt_threshold, moon_phase_threshold,
                   trail_image, trail_count, pixels_cutoff, excluded_images,
                   sqm_mask, placeholder_image, placeholder_adu,
                   timelapse_frame_count, timelapse_frame_list,
                   timelapse_tmpdir, alive, outfile, outfile_gps, deletions,
                   gen, frames_passed, processed_frames, accepted_frames,
                   rules_evaluated>>

(***************************************************************************)
(* finalize(outfile, camera).                                              *)
(***************************************************************************)
Abs(n) == IF n >= 0 THEN n ELSE -n

\* decdeg2dms(dd) for a decimal-degree value given as an exact rational:
\* divmod(dd * 3600, 60), then divmod(minutes, 60), then the sign is put on
\* the degrees; floor division of two floats gives an integral value, and
\* -0.0 is the integer 0 (both compare equal to 0 and not below it)
\* (faulty variant: the minutes are not reduced modulo 60)
decdeg2dmsTotalMinutes(dd) ==
    LET total == (Abs(dd[1]) * 3600) \div (dd[2] * 60)
    IN  [degrees |-> IF dd[1] >= 0 THEN total \div 60 ELSE -(total \div 60),
         minutes |-> total,
         seconds |-> Q(Abs(dd[1]) * 3600 - total * 60 * dd[2], dd[2])]
decdeg2dms(dd) ==
    LET is_positive == dd[1] >= 0
        abs_dd == Q(Abs(dd[1]), dd[2])
        total_seconds == Q(abs_dd[1] * 3600, abs_dd[2])
        total_minutes == total_seconds[1] \div (total_seconds[2] * 60)
        seconds == Q(total_seconds[1] - total_minutes * 60 * total_seconds[2],
                     total_seconds[2])
        degrees == total_minutes \div 60
        minutes == total_minutes % 60
    IN  [degrees |-> IF is_positive THEN degrees ELSE -degrees,
         minutes |-> minutes,
         seconds |-> seconds]

\* lines 372-398: the GPS block built from the camera's position
GpsIfd(cam) ==
    LET long == decdeg2dms(cam.longitude)
        lat == decdeg2dms(cam.latitude)
    IN  [GPSLongitudeRef |-> IF long.degrees < 0 THEN "W" ELSE "E",
         GPSLongitude |-> <<Abs(long.degrees), long.minutes, 0>>,
         GPSLatitudeRef |-> IF lat.degrees < 0 THEN "S" ELSE "N",
         GPSLatitude |-> <<Abs(lat.degrees), lat.minutes, 0>>]

\* lines 412-426: the formats that are saved with exif=jpeg_exif
ExifTypes == {"jpg", "jpeg", "webp"}

\* lines 340-342: the image that is encoded
ResultImage == IF trail_count = 0 THEN placeholder_image ELSE trail_image

Finalize ==
    /\ Callable
    /\ trail_image' = ResultImage
    /\ IF ~TypeSupported
       THEN raised' = "Exception" /\ UNCHANGED <<outfile, outfile_gps>>
       ELSE IF ResultImage = None
       THEN raised' = "cv2.error" /\ UNCHANGED <<outfile, outfile_gps>>
       ELSE /\ raised' = "none"
            /\ outfile' = ResultImage
            /\ outfile_gps' = IF config.IMAGE_FILE_TYPE \in ExifTypes
                              THEN GpsIfd(camera) ELSE None
    /\ UNCHANGED <<camera, mask_request, preprocessed, config,
                   pixel_cutoff_threshold, moonmode_alt, moonmode_phase,
                   moon_alt_threshold, moon_phase_threshold, trail_count,
                   pixels_cutoff, excluded_images, sqm_mask,
                   placeholder_image, placeholder_adu, timelapse_frame_count,
                   timelapse_frame_list, timelapse_tmpdir, alive, deletions,
                   gen, frames_passed, processed_frames, accepted_frames,
                   rules_evaluated>>

(***************************************************************************)
(* cleanup() and __del__: the temporary workspace.                         *)
(***************************************************************************)
\* self.timelapse_tmpdir.cleanup(): TemporaryDirectory removes the directory
\* on the first call and does nothing afterwards; the attribute is missing
\* when __init__ did not reach line 72
TmpdirNeedsRemoval == timelapse_tmpdir = "live"

cleanup ==
    /\ raised' = IF timelapse_tmpdir = "unset" THEN "AttributeError" ELSE "none"
    /\ deletions' = IF TmpdirNeedsRemoval THEN deletions + 1 ELSE deletions
    /\ timelapse_tmpdir' = IF timelapse_tmpdir = "unset" THEN "unset"
                           ELSE "cleaned"
    /\ UNCHANGED <<camera, mask_request, preprocessed, config,
                   pixel_cutoff_threshold, moonmode_alt, moonmode_phase,
                   moon_alt_threshold, moon_phase_threshold, trail_image,
                   trail_count, pixels_cutoff, excluded_images, sqm_mask,
                   placeholder_image, placeholder_adu, timelapse_frame_count,
                   timelapse_frame_list, outfile, outfile_gps, gen,
                   frames_passed, processed_frames, accepted_frames,
                   rules_evaluated>>

CallCleanup ==
    /\ Callable
    /\ cleanup
    /\ UNCHANGED alive

\* __del__: the instance is discarded (also after __init__ raised)
Discard ==
    /\ alive
    /\ preprocessed.done
    /\ gen.pc # "loop"
    /\ cleanup
    /\ alive' = FALSE

(***************************************************************************)
(* generate(outfile, file_list).                                           *)
(***************************************************************************)
\* a file: its mtime, its size, and what decoding gives (None: not an image)
Files ==
    [mtime : Mtimes, size : {0}, image : {None}]
    \cup [mtime : Mtimes, size : {1}, image : {None} \cup Images]

RECURSIVE FileLists(_)
FileLists(n) ==
    IF n = 0 THEN {<<>>}
    ELSE FileLists(n - 1)
         \cup {Append(l, f) : l \in {k \in FileLists(n - 1) : Len(k) = n - 1},
                              f \in Files}

AllFileLists == FileLists(MaxFrames)

\* filter(lambda p: p.stat().st_size != 0, file_list)
NonZero(file_list) == SelectSeq(file_list, LAMBDA f : f.size # 0)

\* sorted(..., key=st_mtime): stable, ascending
InsertByMtime(s, f) ==
    LET k == Cardinality({i \in 1..Len(s) : s[i].mtime <= f.mtime})
    IN  SubSeq(s, 1, k) \o <<f>> \o SubSeq(s, k + 1, Len(s))

RECURSIVE SortedByMtime(_)
SortedByMtime(s) ==
    IF s = <<>> THEN <<>>
    ELSE InsertByMtime(SortedByMtime(SubSeq(s, 1, Len(s) - 1)), s[Len(s)])

\* files of a list that are neither empty nor undecodable
Decodable(file_list) ==
    Cardinality({i \in 1..Len(file_list) :
                    file_list[i].size # 0 /\ file_list[i].image # None})

\* pc: "idle" (never called), "loop" (running), "raised" (left by an
\* exception); queue: file_list_ordered not yet read; files, decodable:
\* size of file_list and its decodable part; passed: processImage calls made
GenIdle == [pc |-> "idle", queue |-> <<>>, files |-> 0, decodable |-> 0,
            passed |-> 0]

GenerateStart ==
    /\ Callable
    /\ \E file_list \in {l \in AllFileLists :
                           Len(l) <= MaxFrames - frames_passed} :
          gen' = [pc |-> "loop",
                  queue |-> SortedByMtime(NonZero(file_list)),
                  files |-> Len(file_list),
                  decodable |-> Decodable(file_list),
                  passed |-> 0]
    /\ raised' = "none"
    /\ UNCHANGED <<camera, mask_request, preprocessed, config,
                   pixel_cutoff_threshold, moonmode_alt, moonmode_phase,
                   moon_alt_threshold, moon_phase_threshold, trail_image,
                   trail_count, pixels_cutoff, excluded_images, sqm_mask,
                   placeholder_image, placeholder_adu, timelapse_frame_count,
                   timelapse_frame_list, timelapse_tmpdir, alive, outfile,
                   outfile_gps, deletions, frames_passed, processed_frames,
                   accepted_frames, rules_evaluated>>

\* one iteration whose file does not decode: logged and skipped
GenerateSkip ==
    /\ gen.pc = "loop"
    /\ gen.queue # <<>>
    /\ Head(gen.queue).image = None
    /\ gen' = [gen EXCEPT !.queue = Tail(@)]
    /\ UNCHANGED <<camera, mask_request, preprocessed, config,
                   pixel_cutoff_threshold, moonmode_alt, moonmode_phase,
                   moon_alt_threshold, moon_phase_threshold, trail_image,
                   trail_count, pixels_cutoff, excluded_images, sqm_mask,
                   placeholder_image, placeholder_adu, timelapse_frame_count,
                   timelapse_frame_list, timelapse_tmpdir, alive, outfile,
                   outfile_gps, deletions, raised, frames_passed,
                   processed_frames, accepted_frames, rules_evaluated>>

\* one iteration whose file decodes: processImage; an exception leaves generate
GenerateProcess ==
    /\ gen.pc = "loop"
    /\ gen.queue # <<>>
    /\ Head(gen.queue).image # None
    /\ \E eph \in Ephemeris :
          processImage(Head(gen.queue).mtime, Head(gen.queue).image, eph)
    /\ gen' = [gen EXCEPT !.queue = Tail(@),
                          !.passed = @ + 1,
                          !.pc = IF raised' = "none" THEN "loop" ELSE "raised"]

\* after the loop: self.finalize(outfile) is called without the camera
\* argument finalize requires, so the call raises TypeError before its body
GenerateFinalize ==
    /\ gen.pc = "loop"
    /\ gen.queue = <<>>
    /\ gen' = [gen EXCEPT !.pc = "raised"]
    /\ raised' = "TypeError"
    /\ UNCHANGED <<camera, mask_request, preprocessed, config,
                   pixel_cutoff_threshold, moonmode_alt, moonmode_phase,
                   moon_alt_threshold, moon_phase_threshold, trail_image,
                   trail_count, pixels_cutoff, excluded_images, sqm_mask,
                   placeholder_image, placeholder_adu, timelapse_frame_count,
                   timelapse_frame_list, timelapse_tmpdir, alive, outfile,
                   outfile_gps, deletions, frames_passed, processed_frames,
                   accepted_frames, rules_evaluated>>

(***************************************************************************)
(* _preprocess_mask, crop_mask, scale_mask: shapes are <<height, width>>.  *)
(***************************************************************************)
Min(a, b) == IF a <= b THEN a ELSE b
Max(a, b) == IF a >= b THEN a ELSE b

\* int(a / b): truncation toward zero
Trunc(a, b) == IF a >= 0 THEN a \div b ELSE -((-a) \div b)

\* numpy basic slicing a[lo:hi] on an axis of length n: a negative index
\* counts from the end, and both ends are clipped to the axis
SliceIndex(i, n) == IF i < 0 THEN Max(i + n, 0) ELSE Min(i, n)
SliceLen(lo, hi, n) == Max(SliceIndex(hi, n) - SliceIndex(lo, n), 0)

\* crop_mask: mask[y1:y2, x1:x2] with the coordinates divided by the binning
crop_mask(shape, roi, bin) ==
    LET x1 == Trunc(roi[1], bin)
        y1 == Trunc(roi[2], bin)
        x2 == Trunc(roi[3], bin)
        y2 == Trunc(roi[4], bin)
    IN  <<SliceLen(y1, y2, shape[1]), SliceLen(x1, x2, shape[2])>>

\* scale_mask: the size handed to cv2.resize, int(dimension * scale / 100.0)
scale_mask(shape, scale) ==
    <<Trunc(shape[1] * scale, 100), Trunc(shape[2] * scale, 100)>>

\* cv2.resize raises cv2.error for an empty source and for an empty size
ResizeRaises(shape, size) ==
    shape[1] = 0 \/ shape[2] = 0 \/ size[1] <= 0 \/ size[2] <= 0

\* _preprocess_mask (faulty variant: the mask is scaled before it is cropped)
preprocess_mask_scale_first(req) ==
    IF req.mask = None THEN [raised |-> FALSE, shape |-> None]
    ELSE LET scaling == req.scale # 0 /\ req.scale # 100
             size == scale_mask(req.mask, req.scale)
             scaled == IF scaling THEN size ELSE req.mask
         IN  IF scaling /\ ResizeRaises(req.mask, size)
             THEN [raised |-> TRUE, shape |-> None]
             ELSE [raised |-> FALSE,
                   shape |-> IF req.crop # None
                             THEN crop_mask(scaled, req.crop, req.bin)
                             ELSE scaled]
preprocess_mask(req) ==
    IF req.mask = None THEN [raised |-> FALSE, shape |-> None]
    ELSE LET cropped == IF req.crop # None
                        THEN crop_mask(req.mask, req.crop, req.bin)
                        ELSE req.mask
             scaling == req.scale # 0 /\ req.scale # 100
             size == scale_mask(cropped, req.scale)
         IN  IF scaling /\ ResizeRaises(cropped, size)
             THEN [raised |-> TRUE, shape |-> None]
             ELSE [raised |-> FALSE,
                   shape |-> IF scaling THEN size ELSE cropped]

\* __init__ as a step: the mask is preprocessed (line 55), then the workspace
\* is created (lines 66-73); an exception on the way leaves the instance
\* without workspace.  An all-white mask stays all-white: every pixel of the
\* resulting shape is nonzero.
Construct ==
    /\ alive
    /\ ~preprocessed.done
    /\ \E folder_ok \in BOOLEAN :
          LET result == preprocess_mask(mask_request)
          IN  /\ preprocessed' = [done |-> TRUE, shape |-> result.shape]
              /\ sqm_mask' = IF result.shape = None THEN NoMask
                             ELSE 1..(result.shape[1] * result.shape[2])
              /\ raised' = IF result.raised THEN "cv2.error"
                           ELSE IF ~folder_ok THEN "KeyError"
                           ELSE "none"
              /\ timelapse_tmpdir' = IF result.raised \/ ~folder_ok
                                     THEN "unset" ELSE "live"
    /\ UNCHANGED <<camera, mask_request, config, pixel_cutoff_threshold,
                   moonmode_alt, moonmode_phase, moon_alt_threshold,
                   moon_phase_threshold, trail_image, trail_count,
                   pixels_cutoff, excluded_images, placeholder_image,
                   placeholder_adu, timelapse_frame_count,
                   timelapse_frame_list, alive, outfile, outfile_gps,
                   deletions, gen, frames_passed, processed_frames,
                   accepted_frames, rules_evaluated>>

(***************************************************************************)
(* __init__ and the specification.                                         *)
(***************************************************************************)
\* the state __init__ leaves: "live" when it returned, "unset" when it
\* raised before the workspace was created (lines 55-72)
Init ==
    /\ config \in [STARTRAILS_TIMELAPSE : BOOLEAN, IMAGE_FILE_TYPE : FileTypes]
    /\ pixel_cutoff_threshold = DefaultPixelCutoffThreshold
    /\ \E m \in MoonSetups :
          /\ moonmode_alt = m.mm_alt
          /\ moonmode_phase = m.mm_phase
          /\ moon_alt_threshold = m.m_alt
          /\ moon_phase_threshold = m.m_phase
    /\ trail_image = None
    /\ trail_count = 0
    /\ pixels_cutoff = None
    /\ excluded_images = 0
    /\ sqm_mask \in {NoMask} \cup SuppliedMasks
    /\ placeholder_image = None
    /\ placeholder_adu = Q(InitialPlaceholderAdu, 1)
    /\ timelapse_frame_count = 0
    /\ timelapse_frame_list = <<>>
    /\ timelapse_tmpdir \in {"live", "unset"}
    /\ alive = TRUE
    /\ outfile = None
    /\ outfile_gps = None
    /\ camera = SiteCamera
    /\ mask_request = FrameMaskRequest(sqm_mask # NoMask)
    /\ preprocessed = [done |-> TRUE, shape |-> mask_request.mask]
    /\ deletions = 0
    /\ raised = "none"
    /\ gen = GenIdle
    /\ frames_passed = 0
    /\ processed_frames = {}
    /\ accepted_frames = {}
    /\ rules_evaluated = <<>>

\* the per-frame interface: processImage, the setter, finalize, cleanup
Next ==
    \/ CallProcessImage
    \/ SetPixelCutoffThreshold
    \/ Finalize
    \/ CallCleanup

Spec == Init /\ [][Next]_vars

\* the batch interface: generate, and processImage calls around it
NextGen ==
    \/ CallProcessImage
    \/ GenerateStart
    \/ GenerateSkip
    \/ GenerateProcess
    \/ GenerateFinalize

SpecGen == Init /\ [][NextGen]_vars

\* the life cycle of an instance up to its disposal
NextLife ==
    \/ CallProcessImage
    \/ Finalize
    \/ CallCleanup
    \/ Discard

SpecLife == Init /\ [][NextLife]_vars

\* runs that write EXIF: every camera position, file types with and without
\* EXIF, colour frames, default thresholds
InitGps ==
    /\ config \in [STARTRAILS_TIMELAPSE : {FALSE},
                   IMAGE_FILE_TYPE : ExifFileTypes]
    /\ camera \in Cameras
    /\ pixel_cutoff_threshold = DefaultPixelCutoffThreshold
    /\ moonmode_alt = DefaultMoonAlt
    /\ moonmode_phase = DefaultMoonPhase
    /\ moon_alt_threshold = DefaultMoonAlt
    /\ moon_phase_threshold = DefaultMoonPhase
    /\ trail_image = None
    /\ trail_count = 0
    /\ pixels_cutoff = None
    /\ excluded_images = 0
    /\ sqm_mask = NoMask
    /\ mask_request = FrameMaskRequest(FALSE)
    /\ preprocessed = [done |-> TRUE, shape |-> None]
    /\ placeholder_image = None
    /\ placeholder_adu = Q(InitialPlaceholderAdu, 1)
    /\ timelapse_frame_count = 0
    /\ timelapse_frame_list = <<>>
    /\ timelapse_tmpdir = "live"
    /\ alive = TRUE
    /\ outfile = None
    /\ outfile_gps = None
    /\ deletions = 0
    /\ raised = "none"
    /\ gen = GenIdle
    /\ frames_passed = 0
    /\ processed_frames = {}
    /\ accepted_frames = {}
    /\ rules_evaluated = <<>>

NextGps ==
    \/ CallProcessImage
    \/ Finalize

SpecGps == InitGps /\ [][NextGps]_vars

\* construction with a supplied mask: the state when __init__ is entered,
\* for every mask argument and mask configuration
InitMask ==
    /\ config \in [STARTRAILS_TIMELAPSE : {TRUE}, IMAGE_FILE_TYPE : {"png"}]
    /\ camera = SiteCamera
    /\ mask_request \in MaskRequests
    /\ preprocessed = [done |-> FALSE, shape |-> None]
    /\ pixel_cutoff_threshold = DefaultPixelCutoffThreshold
    /\ moonmode_alt = DefaultMoonAlt
    /\ moonmode_phase = DefaultMoonPhase
    /\ moon_alt_threshold = DefaultMoonAlt
    /\ moon_phase_threshold = DefaultMoonPhase
    /\ trail_image = None
    /\ trail_count = 0
    /\ pixels_cutoff = None
    /\ excluded_images = 0
    /\ sqm_mask = NoMask
    /\ placeholder_image = None
    /\ placeholder_adu = Q(InitialPlaceholderAdu, 1)
    /\ timelapse_frame_count = 0
    /\ timelapse_frame_list = <<>>
    /\ timelapse_tmpdir = "unset"
    /\ alive = TRUE
    /\ outfile = None
    /\ outfile_gps = None
    /\ deletions = 0
    /\ raised = "none"
    /\ gen = GenIdle
    /\ frames_passed = 0
    /\ processed_frames = {}
    /\ accepted_frames = {}
    /\ rules_evaluated = <<>>

NextMask ==
    \/ Construct
    \/ Discard

SpecMask == InitMask /\ [][NextMask]_vars

(***************************************************************************)
(* Properties.                                                             *)
(***************************************************************************)
\* the largest element of a non-empty set of numbers
Largest(S) == CHOOSE x \in S : \A y \in S : y <= x

\* the pixel-wise maximum of a set of frames over a black image
MaxOfFrames(S) == [p \in Pixels |-> Largest({0} \cup {f[p] : f \in S})]

\* the composite a frame is folded into: black until the first frame creates it
CompositeOf(image) == IF image = None THEN ZeroImage ELSE image

\* the generate call ran its loop to the end (and then failed in finalize)
GenerateCompleted == gen.pc = "raised" /\ raised = "TypeError"

\* C1: every frame handed to processImage raises exactly one of trail_count
\* and excluded_images by one, so their sum is the number of processImage
\* calls; generate hands over exactly the non-empty decodable files, so empty
\* and undecodable files are counted nowhere.
C1_EveryFrameCountedOnce ==
    /\ trail_count + excluded_images = frames_passed
    /\ trail_count = 0 => excluded_images = frames_passed
    /\ gen.pc = "loop" => gen.passed + Decodable(gen.queue) = gen.decodable
    /\ GenerateCompleted => gen.passed = gen.decodable

\* C1 witness: generate read two files, one of them empty or undecodable,
\* and the decodable one was excluded.
C1_Witness ==
    /\ GenerateCompleted
    /\ gen.files = 2 /\ gen.decodable = 1
    /\ frames_passed = 1 /\ excluded_images = 1 /\ trail_count = 0

\* C2 (as claimed): with a supported file type every finalize call writes an
\* image, and with no accepted frame that image is the placeholder, a frame
\* that was processed.
C2_FinalizeAlwaysWritesAnImage ==
    [][(Finalize /\ TypeSupported) =>
          /\ raised' = "none"
          /\ outfile' # None
          /\ trail_count = 0 =>
                outfile' = placeholder_image /\ outfile' \in processed_frames]_vars

\* C3 (as claimed): once a frame was processed a placeholder is retained, it
\* is one of the processed frames, and its masked mean is at most the masked
\* mean of every processed frame.
C3_PlaceholderIsDarkest ==
    frames_passed >= 1 =>
        /\ placeholder_image \in processed_frames
        /\ placeholder_adu = MaskedMean(placeholder_image, sqm_mask)
        /\ \A f \in processed_frames :
              QLe(placeholder_adu, MaskedMean(f, sqm_mask))

\* C4 (as claimed): once created, the composite is the pixel-wise maximum of
\* exactly the accepted frames (black if there is none), whatever calls were
\* made in between.
C4_CompositeIsMaxOfAccepted ==
    trail_image # None => trail_image = MaxOfFrames(accepted_frames)

C6_GenerateWritesOutput ==
    /\ \A i, j \in 1..Len(gen.queue) :
          i < j => gen.queue[i].mtime <= gen.queue[j].mtime
    /\ \A i \in 1..Len(gen.queue) : gen.queue[i].size # 0
    /\ (gen.pc = "raised" /\ TypeSupported) => outfile # None

\* C7 (as claimed): whenever the instance has been discarded, after a
\* completed or a failed construction, the workspace was deleted exactly
\* once and the cleanup did not fail.
C7_WorkspaceDeletedExactlyOnce ==
    /\ deletions <= 1
    /\ ~alive => deletions = 1 /\ raised = "none"

\* what C8 and C9 read of one processImage call with the given frame
GateContext(image, eph) ==
    [sun_alt |-> eph.sun_alt, moon_alt |-> eph.moon_alt,
     moon_phase |-> eph.moon_phase,
     m_avg |-> MaskedMean(image, sqm_mask'),
     pixels_above |-> PixelsAbove(image), cutoff |-> pixels_cutoff']

\* every processImage step, with each input that produces it, satisfies P
ForEveryFrame(P(_, _)) ==
    frames_passed' = frames_passed + 1 =>
        \A image \in processed_frames', eph \in Ephemeris, mtime \in Mtimes :
            processImage(mtime, image, eph) => P(image, eph)

GateOrder == <<"sun", "moonmode", "moon", "brightness", "pixels">>

GateOrderHolds(image, eph) ==
    LET ctx == GateContext(image, eph)
        tried == rules_evaluated'
        n == Len(tried)
    IN  /\ n >= 1
        /\ tried = SubSeq(GateOrder, 1, n)
        /\ \A i \in 1..(n - 1) : ~Matches(tried[i], ctx)
        /\ IF Matches(tried[n], ctx)
           THEN /\ excluded_images' = excluded_images + 1
                /\ trail_count' = trail_count
           ELSE /\ n = Len(GateOrder)
                /\ excluded_images' = excluded_images
                /\ trail_count' = trail_count + 1
        /\ eph.sun_alt > sun_alt_threshold =>
              /\ tried = <<"sun">>
              /\ excluded_images' = excluded_images + 1
              /\ trail_count' = trail_count

\* C8: the rules are tried in the order sun, moon mode, moon, brightness,
\* pixel cutoff; the first that matches ends the frame and raises
\* excluded_images by one; a frame above the sun threshold tries no other rule.
C8_GateOrdering == [][ForEveryFrame(GateOrderHolds)]_vars

\* C8 witness: a saturated frame, which the brightness rule would exclude
\* too, was excluded by the sun rule alone.
C8_Witness ==
    /\ frames_passed = 1 /\ processed_frames = {<<255, 255>>}
    /\ rules_evaluated = <<"sun">> /\ excluded_images = 1 /\ trail_count = 0

AcceptedIffHolds(image, eph) ==
    LET m_avg == MaskedMean(image, sqm_mask')
        passes ==
            /\ eph.sun_alt <= sun_alt_threshold
            /\ ~(eph.moon_alt > moonmode_alt /\ eph.moon_phase > moonmode_phase)
            /\ ~(eph.moon_alt > moon_alt_threshold
                   /\ eph.moon_phase > moon_phase_threshold)
            /\ QLe(m_avg, Q(max_brightness, 1))
            /\ QLe(Q(PixelsAbove(image), 1), pixels_cutoff')
        base == CompositeOf(trail_image)
    IN  IF passes
        THEN /\ trail_count' = trail_count + 1
             /\ trail_image' = MaxOfFrames({base, image})
             /\ image \in accepted_frames'
        ELSE /\ trail_count' = trail_count
             /\ trail_image' = base
             /\ accepted_frames' = accepted_frames

\* C9: a frame is accepted, counted and folded into the composite, exactly
\* when none of the five strict comparisons excludes it.
C9_AcceptedIff == [][ForEveryFrame(AcceptedIffHolds)]_vars

\* C9 witness: a frame whose masked mean equals max_brightness was accepted,
\* and a frame with as many bright pixels as the cutoff allows was accepted.
C9_Witness ==
    /\ sqm_mask = {1}
    /\ accepted_frames = {<<50, 0>>, <<0, 255>>}
    /\ trail_count = 2

\* C10: no processImage call lowers any pixel of the composite, black before
\* the first frame creates it.
C10_CompositeMonotone ==
    [][frames_passed' = frames_passed + 1 =>
          \A p \in Pixels :
              CompositeOf(trail_image')[p] >= CompositeOf(trail_image)[p]]_vars

\* C10 witness: two accepted frames lit different pixels, so the composite is
\* brighter than either of them.
C10_Witness ==
    /\ trail_count = 2
    /\ trail_image = <<50, 50>>
    /\ accepted_frames = {<<50, 0>>, <<0, 50>>}

\* lines 292-293 applied to a sequence of accepted frames, one after another
RECURSIVE Fold(_, _)
Fold(base, frames) ==
    IF frames = <<>> THEN base
    ELSE Fold(ImageMax(base, Head(frames)), Tail(frames))

\* every order in which the frames of S can arrive
Orders(S) ==
    {s \in [1..Cardinality(S) -> S] : \A f \in S : \E i \in DOMAIN s : s[i] = f}

\* sets of at most three frames
FrameSets == {S \in SUBSET Images : Cardinality(S) <= 3}

\* folding S into a black composite gives one result whatever the order, and
\* folding any frame of S once more changes nothing
FoldIgnoresOrder(S) ==
    \A s, t \in Orders(S) :
        /\ Fold(ZeroImage, s) = Fold(ZeroImage, t)
        /\ \A f \in S : Fold(Fold(ZeroImage, s), <<f>>) = Fold(ZeroImage, s)

\* the law for every set of at most three frames
FoldLaw == \A S \in FrameSets : FoldIgnoresOrder(S)

\* C11: for every set of accepted frames, folding them into a black
\* composite in any order gives the same composite, and folding a frame that
\* was already folded leaves the composite unchanged; in every state of a
\* run this holds of the frames accepted so far and of the composite held.
C11_FoldOrderIndependent ==
    /\ FoldLaw
    /\ FoldIgnoresOrder(accepted_frames)
    /\ trail_image # None =>
          \A f \in accepted_frames : ImageMax(trail_image, f) = trail_image

\* C11 witness: the same frame was accepted twice and the composite is that
\* frame.
C11_Witness ==
    /\ frames_passed = 2 /\ trail_count = 2
    /\ accepted_frames = {<<0, 50>>}
    /\ trail_image = <<0, 50>>

\* C12: with an IMAGE_FILE_TYPE outside jpg, jpeg, png, webp, tif, tiff
\* every finalize call raises and leaves the output file unwritten, and with
\* timelapse emission enabled every processImage call that accepts a frame
\* raises and emits no timelapse frame; no output file and no timelapse
\* frame ever exists.
C12_UnsupportedTypeIsFatal ==
    [][config.IMAGE_FILE_TYPE \notin SupportedTypes =>
          /\ Finalize => raised' = "Exception" /\ outfile' = outfile
          /\ (/\ frames_passed' = frames_passed + 1
              /\ trail_count' = trail_count + 1
              /\ config.STARTRAILS_TIMELAPSE) =>
                 /\ raised' \in {"Exception", "FileNotFoundError"}
                 /\ timelapse_tmpdir = "live" => raised' = "Exception"
                 /\ timelapse_frame_list' = timelapse_frame_list
                 /\ timelapse_frame_count' = timelapse_frame_count
          /\ outfile' = None
          /\ timelapse_frame_list' = <<>>]_vars

\* C12 witness: with type bmp, finalize ran after one excluded frame (the
\* composite holds that frame) and wrote nothing, then the first accepted
\* frame made processImage raise without emitting a timelapse frame.
C12_Witness ==
    /\ config.IMAGE_FILE_TYPE = "bmp" /\ config.STARTRAILS_TIMELAPSE
    /\ processed_frames = {<<0, 255>>, <<50, 0>>}
    /\ accepted_frames = {<<50, 0>>}
    /\ trail_image = <<50, 255>>
    /\ raised = "Exception"
    /\ timelapse_frame_list = <<>>
    /\ outfile = None

\* the gate and accumulator fields after one processImage call, written as a
\* function of the frame, the ephemeris, the thresholds and those same fields
\* before the call: neither config nor the timelapse fields occur in it
SameWithoutTimelapse(image, eph) ==
    LET mask == IF sqm_mask = NoMask THEN GenerateSqmMask ELSE sqm_mask
        m_avg == MaskedMean(image, mask)
        cutoff == IF trail_image = None
                  THEN Q(Cardinality(Pixels) * pixel_cutoff_threshold, 100)
                  ELSE pixels_cutoff
        passes ==
            /\ eph.sun_alt <= sun_alt_threshold
            /\ ~(eph.moon_alt > moonmode_alt /\ eph.moon_phase > moonmode_phase)
            /\ ~(eph.moon_alt > moon_alt_threshold
                   /\ eph.moon_phase > moon_phase_threshold)
            /\ QLe(m_avg, Q(max_brightness, 1))
            /\ QLe(Q(PixelsAbove(image), 1), cutoff)
        base == CompositeOf(trail_image)
        darker == QLt(m_avg, placeholder_adu)
    IN  /\ trail_image' = IF passes THEN MaxOfFrames({base, image}) ELSE base
        /\ trail_count' = IF passes THEN trail_count + 1 ELSE trail_count
        /\ excluded_images' = IF passes THEN excluded_images
                              ELSE excluded_images + 1
        /\ placeholder_image' = IF darker THEN image ELSE placeholder_image
        /\ placeholder_adu' = IF darker THEN m_avg ELSE placeholder_adu

\* C13: after every processImage call trail_image, trail_count,
\* excluded_images, the placeholder frame and placeholder_adu are determined
\* by the frame, the thresholds and their values before the call alone, so a
\* run with STARTRAILS_TIMELAPSE enabled and a run with it disabled over the
\* same frames and thresholds agree on them after every call.
C13_TimelapseDoesNotAlterGates == [][ForEveryFrame(SameWithoutTimelapse)]_vars

\* C13 witness: with emission disabled a frame was excluded and kept as the
\* placeholder, and a frame was accepted into the composite.
C13_Witness ==
    /\ ~config.STARTRAILS_TIMELAPSE
    /\ frames_passed = 2 /\ trail_count = 1 /\ excluded_images = 1
    /\ timelapse_frame_count = 0
    /\ trail_image = <<0, 50>>
    /\ placeholder_image = <<0, 0>>

\* C14 (as claimed): the GPS block of a written file has longitude reference
\* W exactly when the camera's longitude is negative (E otherwise) and
\* latitude reference S exactly when its latitude is negative (N otherwise),
\* also for values strictly between -1 and 0 degrees.
C14_HemisphereReference ==
    outfile_gps # None =>
        /\ outfile_gps.GPSLongitudeRef =
              IF QLt(camera.longitude, Q(0, 1)) THEN "W" ELSE "E"
        /\ outfile_gps.GPSLatitudeRef =
              IF QLt(camera.latitude, Q(0, 1)) THEN "S" ELSE "N"

\* floor(|d|), and the whole minutes of what remains of |d|
WholeDegrees(d) == Abs(d[1]) \div d[2]
WholeMinutes(d) == ((Abs(d[1]) % d[2]) * 60) \div d[2]

\* what decdeg2dms returns for d, against the arithmetic of the claim
ConvertsAsClaimed(d) ==
    LET dms == decdeg2dms(d)
    IN  /\ Abs(dms.degrees) = WholeDegrees(d)
        /\ d[1] >= 0 => dms.degrees >= 0
        /\ d[1] < 0 => dms.degrees <= 0
        /\ dms.minutes = WholeMinutes(d)
        /\ dms.minutes \in 0..59

\* every position of the model, and the two examples
ConversionLaw ==
    /\ \A d \in Longitudes \cup Latitudes : ConvertsAsClaimed(d)
    /\ LET dms == decdeg2dms(Q(-151, 2))
       IN  dms.degrees = -75 /\ dms.minutes = 30 /\ dms.seconds[1] = 0
    /\ LET dms == decdeg2dms(Q(163, 4))
       IN  dms.degrees = 40 /\ dms.minutes = 45 /\ dms.seconds[1] = 0

\* C17: decdeg2dms returns degrees of magnitude floor(|d|) with the sign of
\* d and the whole minutes (0..59) of the remaining fraction; -75.5 gives
\* -75, 30, 0 and 40.75 gives 40, 45, 0; the GPS block of a written file
\* holds the absolute whole degrees, the whole minutes and 0 seconds of the
\* camera's longitude and latitude.
C17_GpsConversion ==
    /\ ConversionLaw
    /\ outfile_gps # None =>
          /\ outfile_gps.GPSLongitude =
                <<WholeDegrees(camera.longitude),
                  WholeMinutes(camera.longitude), 0>>
          /\ outfile_gps.GPSLatitude =
                <<WholeDegrees(camera.latitude),
                  WholeMinutes(camera.latitude), 0>>

\* C17 witness: a file was written for a camera at 1 deg 12 min 1 s east,
\* 1 deg 12 min 1 s south; the block holds 1, 12, 0 for both.
C17_Witness ==
    /\ camera = [longitude |-> <<4321, 3600>>, latitude |-> <<-4321, 3600>>]
    /\ outfile # None
    /\ outfile_gps # None
    /\ outfile_gps.GPSLongitude = <<1, 12, 0>>
    /\ outfile_gps.GPSLatitude = <<1, 12, 0>>

\* C15 (as claimed): whenever processImage evaluates the pixel-cutoff rule
\* on a frame, the cutoff it compares with equals the frame's area times the
\* pixel_cutoff_threshold configured at that moment, divided by 100, also
\* when the threshold was set after the first frame.
C15_CutoffFollowsThreshold ==
    [][(/\ frames_passed' = frames_passed + 1
        /\ Len(rules_evaluated') = Len(RuleOrder)) =>
           pixels_cutoff'[1] * 100 =
              Cardinality(Pixels) * pixel_cutoff_threshold * pixels_cutoff'[2]]_vars

\* the four moon thresholds are the defaults of __init__
MoonDefaults ==
    /\ moonmode_alt = DefaultMoonAlt /\ moonmode_phase = DefaultMoonPhase
    /\ moon_alt_threshold = DefaultMoonAlt
    /\ moon_phase_threshold = DefaultMoonPhase

\* every moon position: altitude in degrees, phase in percent
MoonPositions == [moon_alt : -90..90, moon_phase : 0..100]

\* C16: with the four moon thresholds at their defaults 91, 101, 91, 101
\* neither the moon-mode rule nor the moon rule matches for any moon altitude
\* in -90..90 and any phase in 0..100, and no processImage call ends at one
\* of the two rules.
C16_SentinelsDisableMoonRules ==
    MoonDefaults =>
        /\ frames_passed = 0 =>
              \A moon \in MoonPositions :
                  ~MoonModeExcludes(moon) /\ ~MoonExcludes(moon)
        /\ rules_evaluated # <<>> =>
              rules_evaluated[Len(rules_evaluated)] \notin {"moonmode", "moon"}

\* C16 witness: with the defaults two frames went through both moon rules
\* and were accepted.
C16_Witness ==
    /\ MoonDefaults
    /\ frames_passed = 2 /\ trail_count = 2 /\ excluded_images = 0
    /\ rules_evaluated = RuleOrder

\* a mask was supplied, IMAGE_CROP_ROI is set and IMAGE_SCALE is 50, and
\* __init__ has run _preprocess_mask
CroppedAndHalved ==
    /\ preprocessed.done
    /\ mask_request.mask # None
    /\ mask_request.crop # None
    /\ mask_request.scale = 50

\* IMAGE_CROP_ROI divided by the binning factor: <<x1, y1, x2, y2>>
BinnedRoi(req) == [i \in 1..4 |-> req.crop[i] \div req.bin]

\* height and width of that rectangle
CroppedRectangle(req) ==
    <<BinnedRoi(req)[4] - BinnedRoi(req)[2], BinnedRoi(req)[3] - BinnedRoi(req)[1]>>

\* the rectangle lies inside the mask
RoiInsideMask(req) ==
    /\ BinnedRoi(req)[1] <= BinnedRoi(req)[3]
    /\ BinnedRoi(req)[3] <= req.mask[2]
    /\ BinnedRoi(req)[2] <= BinnedRoi(req)[4]
    /\ BinnedRoi(req)[4] <= req.mask[1]

\* height and width of the part of the rectangle that lies inside the mask
ClippedRectangle(req) ==
    <<Min(BinnedRoi(req)[4], req.mask[1]) - Min(BinnedRoi(req)[2], req.mask[1]),
      Min(BinnedRoi(req)[3], req.mask[2]) - Min(BinnedRoi(req)[1], req.mask[2])>>

Halved(shape) == <<shape[1] \div 2, shape[2] \div 2>>

\* C18 (as claimed): a supplied mask that is cropped to IMAGE_CROP_ROI
\* divided by the binning factor and then scaled by 50 percent has exactly
\* half the height and half the width of the cropped rectangle, rounded
\* down.
C18_HalfOfCroppedRectangle ==
    CroppedAndHalved =>
        preprocessed.shape = Halved(CroppedRectangle(mask_request))

\* C18 (amended): the mask is cropped to the part of the rectangle that
\* lies inside it (the whole rectangle when it lies inside the mask) and
\* then scaled; when both halves, rounded down, are at least one pixel the
\* resulting mask has exactly these halves as height and width; otherwise
\* the construction fails and no mask and no workspace exist.
C18_HalfOfCroppedMask ==
    CroppedAndHalved =>
        LET clipped == ClippedRectangle(mask_request)
            half == Halved(clipped)
        IN  /\ RoiInsideMask(mask_request) =>
                  clipped = CroppedRectangle(mask_request)
            /\ IF half[1] >= 1 /\ half[2] >= 1
               THEN preprocessed.shape = half
               ELSE preprocessed.shape = None /\ timelapse_tmpdir = "unset"

\* C18 witness: a 6 x 4 mask was cropped to a rectangle 5 wide and 3 high
\* and scaled by 50 percent; the result is 2 wide and 1 high.
C18_Witness ==
    /\ preprocessed.done
    /\ mask_request = [mask |-> <<4, 6>>, crop |-> <<0, 1, 5, 4>>,
                       scale |-> 50, bin |-> 1]
    /\ preprocessed.shape = <<1, 2>>
    /\ timelapse_tmpdir = "live"

\* every processImage step, with each call that produces it, satisfies P
ForEveryCall(P(_, _, _)) ==
    frames_passed' = frames_passed + 1 =>
        \A image \in processed_frames', eph \in Ephemeris, mtime \in Mtimes :
            processImage(mtime, image, eph) => P(mtime, image, eph)

\* a call that accepts its frame and returns appends one entry: the maximum
\* of the frames accepted so far, with the frame's mtime; any other call
\* leaves the list as it is
SnapshotAppended(mtime, image, eph) ==
    IF /\ trail_count' = trail_count + 1
       /\ config.STARTRAILS_TIMELAPSE
       /\ raised' = "none"
    THEN timelapse_frame_list' =
            Append(timelapse_frame_list,
                   [image |-> MaxOfFrames(accepted_frames'), mtime |-> mtime])
    ELSE timelapse_frame_list' = timelapse_frame_list

\* C19 (as claimed): with timelapse emission enabled the k-th entry of
\* timelapse_frame_list is appended by the k-th acceptance, holds the
\* pixel-wise maximum of the first k accepted frames and the mtime of the
\* k-th accepted frame, and no step of processImage, finalize or any other
\* call removes or reorders an entry.
C19_SnapshotOfAcceptedFrames ==
    [][/\ frames_passed' = frames_passed =>
             timelapse_frame_list' = timelapse_frame_list
       /\ ForEveryCall(SnapshotAppended)]_vars

\* the call raised for the file type: the frame is counted and folded, no
\* timelapse entry is added
CountedBeforeRaise(image, eph) ==
    raised' = "Exception" =>
        /\ config.STARTRAILS_TIMELAPSE
        /\ config.IMAGE_FILE_TYPE \notin SupportedTypes
        /\ trail_count' = trail_count + 1
        /\ trail_image' = MaxOfFrames({CompositeOf(trail_image), image})
        /\ image \in accepted_frames'
        /\ timelapse_frame_list' = timelapse_frame_list
        /\ timelapse_frame_count' = timelapse_frame_count

\* C20 (as claimed): when processImage raises for an unsupported
\* IMAGE_FILE_TYPE the frame was already counted in trail_count and folded
\* into trail_image, nothing was appended to timelapse_frame_list and
\* timelapse_frame_count is as before, and afterwards trail_count equals
\* timelapse_frame_count plus one.
C20_CountIsOneAhead ==
    [][/\ ForEveryFrame(CountedBeforeRaise)
       /\ (frames_passed' = frames_passed + 1 /\ raised' = "Exception") =>
             trail_count' = timelapse_frame_count' + 1]_vars

\* C20 (amended): when processImage raises for an unsupported
\* IMAGE_FILE_TYPE the frame was already counted in trail_count and folded
\* into trail_image, nothing was appended to timelapse_frame_list and
\* timelapse_frame_count is as before (0); every such error puts trail_count
\* one further ahead of timelapse_frame_count, so after the first error of
\* a run trail_count equals timelapse_frame_count plus one and after the
\* n-th it equals timelapse_frame_count plus n.
C20_CountAheadByErrors ==
    [][/\ ForEveryFrame(CountedBeforeRaise)
       /\ (frames_passed' = frames_passed + 1 /\ raised' = "Exception") =>
             /\ trail_count' - timelapse_frame_count' =
                   (trail_count - timelapse_frame_count) + 1
             /\ trail_count = 0 => trail_count' = timelapse_frame_count' + 1
             /\ timelapse_frame_count' = 0]_vars

\* C20 witness: with type bmp two frames were accepted, each call raised,
\* both frames are counted and folded and no timelapse frame exists.
C20_Witness ==
    /\ config.STARTRAILS_TIMELAPSE /\ config.IMAGE_FILE_TYPE = "bmp"
    /\ raised = "Exception"
    /\ frames_passed = 2 /\ trail_count = 2
    /\ trail_image = <<50, 50>>
    /\ timelapse_frame_count = 0 /\ timelapse_frame_list = <<>>

====
